---- MODULE Spec2Model ----
(***************************************************************************)
(* Model of owmidiparser.js: convertMidi and the four stages it runs in    *)
(* sequence (readMidiData, convertToArray, compressSongArrays,             *)
(* writeWorkshopRules).                                                    *)
(*                                                                         *)
(* Numbers.  Times of the source are floating-point seconds.  The model    *)
(* counts raw note times and startTime in units of 1/TIME_SCALE of a       *)
(* millisecond, and quantised chord keys in whole milliseconds (the source *)
(* rounds keys to NOTE_PRECISION = 3 decimals of a second).  Floating      *)
(* point error is not modelled.                                            *)
(*                                                                         *)
(* Text.  A JavaScript string of decimal digits is a sequence of digits    *)
(* 0..9; the text "undefined" is the sequence UNDEFINED.                   *)
(***************************************************************************)
EXTENDS Integers, Sequences, FiniteSets, TLC

(***************************************************************************)
(* Program constants                                                       *)
(***************************************************************************)
PIANO_MIN == 24
PIANO_MAX == 88
OCTAVE == 12
VOICES_MIN == 6
VOICES_MAX == 11
STARTTIME_MIN == 0
MAX_TIME_INTERVAL == 9999
COMPRESSED_ELEMENT_LENGTH == 7
PERCUSSION_CHANNEL == 9

\* SONG_DATA_ELEMENT_LENGTHS
ArrayNames == <<"pitchArrays", "timeArrays", "chordArrays">>

SONG_DATA_ELEMENT_LENGTHS ==
    [pitchArrays |-> 2, timeArrays |-> 4, chordArrays |-> 1]

DEFAULT_SETTINGS == [startTime |-> 0, voices |-> 6]

SettingsKeys == {"startTime", "voices"}

NO_NOTES_FOUND == "Error: no notes found in MIDI file in the given time range."
TYPE_0_FILE == "WARNING: The processed file is a type 0 file and may have been converted incorrectly."

(***************************************************************************)
(* Bounds of the model.  MAX_OW_ARRAY_SIZE and MAX_TOTAL_ARRAY_ELEMENTS    *)
(* are 999 and 9000 in the source; the model runs them scaled down so that *)
(* splitting and the budget stop happen on short songs.                    *)
(***************************************************************************)
MAX_OW_ARRAY_SIZE == 3
MAX_TOTAL_ARRAY_ELEMENTS == 4
MaxNotes == 3
MaxRun == 11
MaxPackLen == 8
\* raw time units per millisecond
TIME_SCALE == 2

(***************************************************************************)
(* Text helpers                                                            *)
(***************************************************************************)
UNDEFINED == <<0 - 1>>

RECURSIVE NumToString(_)
\* Number.prototype.toString for a non-negative integer
NumToString(n) == IF n < 10 THEN <<n>> ELSE NumToString(n \div 10) \o <<n % 10>>

RECURSIVE Zeros(_)
Zeros(k) == IF k <= 0 THEN <<>> ELSE <<0>> \o Zeros(k - 1)

PadStartNoPad(s, w) == s

\* String.prototype.padStart(w, "0")
PadStart(s, w) == IF Len(s) >= w THEN s ELSE Zeros(w - Len(s)) \o s

RECURSIVE Join(_)
\* Array.prototype.join("") on an array of strings
Join(ss) == IF ss = <<>> THEN <<>> ELSE Head(ss) \o Join(Tail(ss))

\* Template-literal rendering of an array element: a number prints its
\* digits, a string prints itself
Render(x, compressed) == IF compressed THEN x ELSE NumToString(x)

\* String comparison by code units, as the default Array.prototype.sort uses
RECURSIVE StrLess(_, _)
StrLess(a, b) ==
    IF a = <<>> THEN b # <<>>
    ELSE IF b = <<>> THEN FALSE
    ELSE IF Head(a) # Head(b) THEN Head(a) < Head(b)
    ELSE StrLess(Tail(a), Tail(b))

CeilDiv(a, b) == (a + b - 1) \div b

RECURSIVE Sum(_)
Sum(s) == IF s = <<>> THEN 0 ELSE Head(s) + Sum(Tail(s))

(***************************************************************************)
(* transposePitch, roundToPlaces                                           *)
(***************************************************************************)
RECURSIVE transposeUp(_)
transposeUp(pitch) == IF pitch < PIANO_MIN THEN transposeUp(pitch + OCTAVE) ELSE pitch

RECURSIVE transposeDown(_)
transposeDown(pitch) == IF pitch > PIANO_MAX THEN transposeDown(pitch - OCTAVE) ELSE pitch

transposePitch(pitch) == transposeDown(transposeUp(pitch))

\* roundToPlaces(note.time, NOTE_PRECISION): raw time to whole milliseconds,
\* Math.round rounding halves up
roundToPlaces(time) == (2 * time + TIME_SCALE) \div (2 * TIME_SCALE)

(***************************************************************************)
(* Inputs: the Midi object, the settings object, compressionEnabled        *)
(***************************************************************************)
Note(t, m, v) == [time |-> t, midi |-> m, velocity |-> v]

Track(c, ns) == [channel |-> c, notes |-> ns]

\* Notes a song may hold in any order: two pitches of one chord whose
\* decimal texts order differently from their values (2, 10), a note half a
\* millisecond in and above the piano range, a note-off, and a late note
\* below the piano range
FreeNotes ==
    { Note(0, 26, 80), Note(0, 34, 80), Note(1, 100, 80),
      Note(3, 26, 0), Note(TIME_SCALE * 10001, 12, 80) }

FreeSeqs(n) == UNION { [1..k -> FreeNotes] : k \in 0..n }

\* n simultaneous notes of ascending pitch, from the bottom of the piano
Run(n) == [k \in 1..n |-> Note(0, PIANO_MIN + k - 1, 80)]

RunSeqs ==
    { Run(n) \o tail : n \in 1..MaxRun, tail \in FreeSeqs(1) }
    \cup { Run(n) \o <<Run(n)[n]>> : n \in 1..MaxRun }

NoteSeqs == FreeSeqs(MaxNotes) \cup RunSeqs

Songs ==
    { <<>> }
    \cup { <<Track(0, ns)>> : ns \in NoteSeqs }
    \cup { <<Track(PERCUSSION_CHANNEL, ns)>> : ns \in FreeSeqs(1) }
    \cup { <<Track(c, ns1), Track(0, ns2)>> :
              c \in {0, PERCUSSION_CHANNEL}, ns1 \in FreeSeqs(1), ns2 \in FreeSeqs(1) }

\* A settings object is a function from its keys to their values
SettingsInputs ==
    { <<>>,
      [k \in {"voices"} |-> 10],
      [startTime |-> 0, voices |-> 2],
      [startTime |-> 0, voices |-> 6],
      [startTime |-> 0, voices |-> 10],
      [startTime |-> TIME_SCALE, voices |-> 6] }

VARIABLES
    mid,                \* the Midi object: its tracks
    suppliedSettings,   \* the settings argument of convertMidi
    compressionEnabled,
    settings,           \* the settings in use after line 86-88
    pc,                 \* position in convertMidi
    ti, ni,             \* readMidiData: current track, current note
    chords,             \* the Map, as its entries in iteration order
    skippedNotes, transposedNotes,
    warnings, errors,
    ci,                 \* convertToArray: current chord
    owArrays,
    pitchArrayElements, timeArrayElements, chordArrayElements,
    prevTime, stopTime,
    compressedArrays,
    rules,              \* the rule texts, in order; <<>> is the empty string
    ran,                \* the stages convertMidi has called
    result

vars == << mid, suppliedSettings, compressionEnabled, settings, pc, ti, ni,
           chords, skippedNotes, transposedNotes, warnings, errors, ci,
           owArrays, pitchArrayElements, timeArrayElements, chordArrayElements,
           prevTime, stopTime, compressedArrays, rules, ran, result >>

inputVars == << mid, suppliedSettings, compressionEnabled >>
readVars == << ti, ni, chords, skippedNotes, transposedNotes, warnings, errors >>
arrayVars == << ci, owArrays, pitchArrayElements, timeArrayElements,
                chordArrayElements, prevTime, stopTime >>

EmptyArrays == [pitchArrays |-> <<>>, timeArrays |-> <<>>, chordArrays |-> <<>>]

\* stopTime of the empty arrayInfo object: undefined
NoStopTime == 0 - 1

Locals ==
    /\ ti = 1 /\ ni = 1
    /\ chords = <<>>
    /\ skippedNotes = 0 /\ transposedNotes = 0
    /\ warnings = <<>> /\ errors = <<>>
    /\ ci = 1
    /\ pitchArrayElements = 0 /\ timeArrayElements = 0 /\ chordArrayElements = 0
    /\ prevTime = 0 /\ stopTime = NoStopTime
    /\ compressedArrays = EmptyArrays
    /\ rules = <<>>
    /\ ran = {}
    /\ result = <<>>

Init ==
    /\ mid \in Songs
    /\ suppliedSettings \in SettingsInputs
    /\ compressionEnabled \in BOOLEAN
    /\ settings = suppliedSettings
    /\ pc = "start"
    /\ owArrays = EmptyArrays
    /\ Locals

(***************************************************************************)
(* convertMidi, lines 86-88: the settings check                            *)
(***************************************************************************)
KeyCount(obj) == Cardinality(DOMAIN obj)

CheckSettings(obj) ==
    IF KeyCount(obj) # Cardinality(SettingsKeys) THEN DEFAULT_SETTINGS ELSE obj

ConvertMidiStart ==
    /\ pc = "start"
    /\ settings' = CheckSettings(settings)
    /\ pc' = "read"
    /\ UNCHANGED << inputVars, readVars, arrayVars, compressedArrays, rules, ran, result >>

(***************************************************************************)
(* readMidiData                                                            *)
(***************************************************************************)
\* Index of the entry of the Map with key t, 0 when there is none
RECURSIVE IndexOfTime(_, _, _)
IndexOfTime(chs, t, i) ==
    IF i > Len(chs) THEN 0
    ELSE IF chs[i].time = t THEN i
    ELSE IndexOfTime(chs, t, i + 1)

Includes(seq, x) == \E i \in 1..Len(seq) : seq[i] = x

\* lines 133-139: the notes the loop passes over
Retained(note, stg) == note.velocity # 0 /\ ~(note.time < stg.startTime)

OutOfRange(note) == note.midi < PIANO_MIN \/ note.midi > PIANO_MAX

\* lines 141-147
NotePitch(note) ==
    (IF OutOfRange(note) THEN transposePitch(note.midi) ELSE note.midi) - PIANO_MIN

\* line 148
NoteTime(note) == roundToPlaces(note.time)

AddToChordOffByOne(chs, noteTime, notePitch, voices) ==
    LET i == IndexOfTime(chs, noteTime, 1) IN
    IF i = 0 THEN Append(chs, [time |-> noteTime, pitches |-> <<notePitch>>])
    ELSE IF Includes(chs[i].pitches, notePitch) THEN chs
    ELSE IF Len(chs[i].pitches) <= voices
         THEN [chs EXCEPT ![i].pitches = Append(@, notePitch)]
         ELSE chs

\* lines 150-161: the Map after the note
AddToChord(chs, noteTime, notePitch, voices) ==
    LET i == IndexOfTime(chs, noteTime, 1) IN
    IF i = 0 THEN Append(chs, [time |-> noteTime, pitches |-> <<notePitch>>])
    ELSE IF Includes(chs[i].pitches, notePitch) THEN chs
    ELSE IF Len(chs[i].pitches) < voices
         THEN [chs EXCEPT ![i].pitches = Append(@, notePitch)]
         ELSE chs

SkippedByNoteDup(chs, noteTime, notePitch, voices) ==
    LET i == IndexOfTime(chs, noteTime, 1) IN
    IF i = 0 THEN 0
    ELSE IF Len(chs[i].pitches) < voices THEN 0
    ELSE 1

\* lines 150-161: what the note adds to skippedNotes
SkippedByNote(chs, noteTime, notePitch, voices) ==
    LET i == IndexOfTime(chs, noteTime, 1) IN
    IF i = 0 THEN 0
    ELSE IF Includes(chs[i].pitches, notePitch) THEN 0
    ELSE IF Len(chs[i].pitches) < voices THEN 0
    ELSE 1

InRead == pc = "read" /\ ti <= Len(mid)

\* lines 127-130
SkipTrack ==
    /\ InRead
    /\ mid[ti].channel = PERCUSSION_CHANNEL
    /\ ti' = ti + 1
    /\ ni' = 1
    /\ UNCHANGED << inputVars, settings, pc, chords, skippedNotes, transposedNotes,
                    warnings, errors, arrayVars, compressedArrays, rules, ran, result >>

\* lines 132-162: one iteration of the loop over track.notes
ReadNote ==
    /\ InRead
    /\ mid[ti].channel # PERCUSSION_CHANNEL
    /\ ni <= Len(mid[ti].notes)
    /\ LET note == mid[ti].notes[ni] IN
        IF Retained(note, settings)
        THEN /\ transposedNotes' = transposedNotes + (IF OutOfRange(note) THEN 1 ELSE 0)
             /\ chords' = AddToChord(chords, NoteTime(note), NotePitch(note), settings.voices)
             /\ skippedNotes' = skippedNotes
                    + SkippedByNote(chords, NoteTime(note), NotePitch(note), settings.voices)
        ELSE UNCHANGED << transposedNotes, chords, skippedNotes >>
    /\ ni' = ni + 1
    /\ UNCHANGED << inputVars, settings, pc, ti, warnings, errors, arrayVars,
                    compressedArrays, rules, ran, result >>

\* the loop over track.notes is exhausted
NextTrack ==
    /\ InRead
    /\ mid[ti].channel # PERCUSSION_CHANNEL
    /\ ni > Len(mid[ti].notes)
    /\ ti' = ti + 1
    /\ ni' = 1
    /\ UNCHANGED << inputVars, settings, pc, chords, skippedNotes, transposedNotes,
                    warnings, errors, arrayVars, compressedArrays, rules, ran, result >>

\* lines 172-174: sort of the entries by key, ascending
RECURSIVE InsertByTime(_, _)
InsertByTime(sorted, e) ==
    IF sorted = <<>> THEN <<e>>
    ELSE IF e.time < Head(sorted).time THEN <<e>> \o sorted
    ELSE <<Head(sorted)>> \o InsertByTime(Tail(sorted), e)

RECURSIVE SortByTime(_)
SortByTime(chs) ==
    IF chs = <<>> THEN <<>>
    ELSE InsertByTime(SortByTime(SubSeq(chs, 1, Len(chs) - 1)), chs[Len(chs)])

NoNotesErrorsNever(chs) == <<>>

\* lines 166-170
NoNotesErrors(chs) == IF Len(chs) = 0 THEN <<NO_NOTES_FOUND>> ELSE <<>>

\* lines 177-180
TrackWarnings(tracks) == IF Len(tracks) = 1 THEN <<TYPE_0_FILE>> ELSE <<>>

\* lines 165-188, then convertMidi line 94
FinishRead ==
    /\ pc = "read"
    /\ ti > Len(mid)
    /\ errors' = NoNotesErrors(chords)
    /\ chords' = SortByTime(chords)
    /\ warnings' = TrackWarnings(mid)
    /\ pc' = IF Len(chords) # 0 THEN "convert" ELSE "return"
    /\ ran' = IF Len(chords) # 0 THEN ran \cup {"convertToArray"} ELSE ran
    \* convertToArray line 211
    /\ prevTime' = IF Len(chords) # 0 THEN SortByTime(chords)[1].time ELSE prevTime
    /\ stopTime' = IF Len(chords) # 0 THEN 0 ELSE stopTime
    /\ UNCHANGED << inputVars, settings, ti, ni, skippedNotes, transposedNotes,
                    ci, owArrays, pitchArrayElements, timeArrayElements,
                    chordArrayElements, compressedArrays, rules, result >>

(***************************************************************************)
(* convertToArray                                                          *)
(***************************************************************************)
\* Array.prototype.sort() with no comparator: elements ordered by their
\* texts (insertion sort; the texts of distinct numbers are distinct)
RECURSIVE InsertByText(_, _)
InsertByText(sorted, x) ==
    IF sorted = <<>> THEN <<x>>
    ELSE IF StrLess(NumToString(x), NumToString(Head(sorted))) THEN <<x>> \o sorted
    ELSE <<Head(sorted)>> \o InsertByText(Tail(sorted), x)

RECURSIVE SortDefault(_)
SortDefault(seq) ==
    IF seq = <<>> THEN <<>>
    ELSE InsertByText(SortDefault(SubSeq(seq, 1, Len(seq) - 1)), seq[Len(seq)])

Min(a, b) == IF a < b THEN a ELSE b

\* lines 220-226
UncompressedSize(p, t, c) == p + t + c

CompressedSize(p, t, c) ==
    CeilDiv(p * SONG_DATA_ELEMENT_LENGTHS["pitchArrays"]
            + t * SONG_DATA_ELEMENT_LENGTHS["timeArrays"]
            + c * SONG_DATA_ELEMENT_LENGTHS["chordArrays"],
            COMPRESSED_ELEMENT_LENGTH)

\* line 228
OverBudget(p, t, c, compression) ==
    (IF compression THEN CompressedSize(p, t, c) ELSE UncompressedSize(p, t, c))
        > MAX_TOTAL_ARRAY_ELEMENTS

\* line 236
TimeInterval(currentChordTime, prev) == Min(currentChordTime - prev, MAX_TIME_INTERVAL)

PushChordNoSize(arrays, interval, pitches) ==
    [pitchArrays |-> arrays.pitchArrays \o SortDefault(pitches),
     timeArrays  |-> Append(arrays.timeArrays, interval),
     chordArrays |-> arrays.chordArrays]

\* lines 236-242
PushChord(arrays, interval, pitches) ==
    [pitchArrays |-> arrays.pitchArrays \o SortDefault(pitches),
     timeArrays  |-> Append(arrays.timeArrays, interval),
     chordArrays |-> Append(arrays.chordArrays, Len(pitches))]

\* lines 214-245: one iteration of the loop over chords.entries()
ConvertChord ==
    /\ pc = "convert"
    /\ ci <= Len(chords)
    /\ LET currentChordTime == chords[ci].time
           pitches == chords[ci].pitches
           p == pitchArrayElements + Len(pitches)
           t == timeArrayElements + 1
           c == chordArrayElements + 1
       IN
        /\ pitchArrayElements' = p
        /\ timeArrayElements' = t
        /\ chordArrayElements' = c
        /\ IF OverBudget(p, t, c, compressionEnabled)
           THEN /\ stopTime' = currentChordTime
                /\ pc' = "converted"
                /\ UNCHANGED << owArrays, chords, prevTime, ci >>
           ELSE /\ owArrays' = PushChord(owArrays,
                                         TimeInterval(currentChordTime, prevTime), pitches)
                \* pitches.sort() sorts the chord of the Map in place
                /\ chords' = [chords EXCEPT ![ci].pitches = SortDefault(pitches)]
                /\ prevTime' = currentChordTime
                /\ ci' = ci + 1
                /\ UNCHANGED << stopTime, pc >>
    /\ UNCHANGED << inputVars, settings, ti, ni, skippedNotes, transposedNotes,
                    warnings, errors, compressedArrays, rules, ran, result >>

\* lines 247-254, then convertMidi line 97
FinishConvert ==
    /\ \/ pc = "convert" /\ ci > Len(chords)
       \/ pc = "converted"
    /\ stopTime' = IF stopTime = 0 THEN chords[Len(chords)].time ELSE stopTime
    /\ pc' = IF compressionEnabled THEN "compress" ELSE "write"
    /\ UNCHANGED << inputVars, settings, readVars, ci, owArrays, pitchArrayElements,
                    timeArrayElements, chordArrayElements, prevTime,
                    compressedArrays, rules, ran, result >>

(***************************************************************************)
(* compressSongArrays                                                      *)
(***************************************************************************)
\* lines 289-293: the buffer cut into pieces of COMPRESSED_ELEMENT_LENGTH
RECURSIVE Slices(_)
Slices(stringBuffer) ==
    IF stringBuffer = <<>> THEN <<>>
    ELSE IF Len(stringBuffer) <= COMPRESSED_ELEMENT_LENGTH THEN <<stringBuffer>>
    ELSE <<SubSeq(stringBuffer, 1, COMPRESSED_ELEMENT_LENGTH)>>
         \o Slices(SubSeq(stringBuffer, COMPRESSED_ELEMENT_LENGTH + 1, Len(stringBuffer)))

\* line 284
PadElements(songArray, arrayName) ==
    [i \in 1..Len(songArray) |->
        PadStart(NumToString(songArray[i]), SONG_DATA_ELEMENT_LENGTHS[arrayName])]

\* lines 282-294 for one array
CompressArray(songArray, arrayName) == Slices(Join(PadElements(songArray, arrayName)))

\* lines 276-297
compressSongArrays ==
    /\ pc = "compress"
    /\ compressedArrays' =
          [pitchArrays |-> CompressArray(owArrays.pitchArrays, "pitchArrays"),
           timeArrays  |-> CompressArray(owArrays.timeArrays, "timeArrays"),
           chordArrays |-> CompressArray(owArrays.chordArrays, "chordArrays")]
    /\ ran' = ran \cup {"compressSongArrays"}
    /\ pc' = "write"
    /\ UNCHANGED << inputVars, settings, readVars, arrayVars, rules, result >>

(***************************************************************************)
(* writeWorkshopRules                                                      *)
(***************************************************************************)
\* `${songArray[index]}`, index counted from 0: past the end the element is
\* undefined
ElementText(tokens, index) ==
    IF index < Len(tokens) THEN tokens[index + 1] ELSE UNDEFINED

\* lines 323-330: the loop over j; gives the elements written and the index
\* reached
RECURSIVE FillArray(_, _, _, _)
FillArray(tokens, index, j, elements) ==
    IF ~(j < MAX_OW_ARRAY_SIZE - 1) THEN [elements |-> elements, index |-> index]
    ELSE LET written == Append(elements, ElementText(tokens, index)) IN
         IF index + 1 >= Len(tokens) THEN [elements |-> written, index |-> index + 1]
         ELSE FillArray(tokens, index + 1, j + 1, written)

\* lines 317-336: the rules of one array
RECURSIVE ArrayRules(_, _, _, _)
ArrayRules(arrayName, tokens, index, owArrayIndex) ==
    IF ~(index < Len(tokens)) THEN <<>>
    ELSE LET filled == FillArray(tokens, index + 1, 0, <<ElementText(tokens, index)>>) IN
         << [name |-> arrayName, index |-> owArrayIndex, elements |-> filled.elements] >>
         \o ArrayRules(arrayName, tokens, filled.index, owArrayIndex + 1)

\* lines 305-307
ConfigRule(maxVoices) ==
    [name |-> "Max amount of bots required", maxBots |-> maxVoices,
     maxArraySize |-> MAX_OW_ARRAY_SIZE,
     compressedElementSize |-> COMPRESSED_ELEMENT_LENGTH]

\* the texts of the elements of an array, as the template literal prints them
Tokens(songArray, compressed) ==
    [i \in 1..Len(songArray) |-> Render(songArray[i], compressed)]

\* the owArrays convertMidi passes to writeWorkshopRules (lines 97-101)
FinalArrays == IF compressionEnabled THEN compressedArrays ELSE owArrays

\* lines 305-339
WorkshopRules(arrays, maxVoices, compressed) ==
    << ConfigRule(maxVoices) >>
    \o ArrayRules("pitchArrays", Tokens(arrays.pitchArrays, compressed), 0, 0)
    \o ArrayRules("timeArrays", Tokens(arrays.timeArrays, compressed), 0, 0)
    \o ArrayRules("chordArrays", Tokens(arrays.chordArrays, compressed), 0, 0)

writeWorkshopRules ==
    /\ pc = "write"
    /\ rules' = WorkshopRules(FinalArrays, settings.voices, compressionEnabled)
    /\ ran' = ran \cup {"writeWorkshopRules"}
    /\ pc' = "return"
    /\ UNCHANGED << inputVars, settings, readVars, arrayVars, compressedArrays, result >>

\* convertMidi lines 104-112
Return ==
    /\ pc = "return"
    /\ result' = [rules |-> rules,
                  skippedNotes |-> skippedNotes,
                  transposedNotes |-> transposedNotes,
                  stopTime |-> stopTime,
                  warnings |-> warnings,
                  errors |-> errors]
    /\ pc' = "done"
    /\ UNCHANGED << inputVars, settings, readVars, arrayVars, compressedArrays, rules, ran >>

Next ==
    \/ ConvertMidiStart
    \/ SkipTrack
    \/ ReadNote
    \/ NextTrack
    \/ FinishRead
    \/ ConvertChord
    \/ FinishConvert
    \/ compressSongArrays
    \/ writeWorkshopRules
    \/ Return

Spec == Init /\ [][Next]_vars

(***************************************************************************)
(* compressSongArrays as a function of its argument: the arrays are drawn  *)
(* from bounded sets and the stage is applied to them                      *)
(***************************************************************************)
SeqsUpTo(S, n) == UNION { [1..k -> S] : k \in 0..n }

PackInputs ==
    { [EmptyArrays EXCEPT !.pitchArrays = a] : a \in SeqsUpTo({7, 99}, MaxPackLen) }
    \cup { [EmptyArrays EXCEPT !.timeArrays = a] : a \in SeqsUpTo({45, 9999}, MaxPackLen) }
    \cup { [EmptyArrays EXCEPT !.chordArrays = a] : a \in SeqsUpTo({9, 10}, MaxPackLen) }
    \cup { [pitchArrays |-> a, timeArrays |-> b, chordArrays |-> c] :
              a \in SeqsUpTo({0, 99}, 2), b \in SeqsUpTo({0, 9999}, 2),
              c \in SeqsUpTo({1, 9}, 2) }

InitPack ==
    /\ mid = <<>>
    /\ suppliedSettings = DEFAULT_SETTINGS
    /\ compressionEnabled = TRUE
    /\ settings = DEFAULT_SETTINGS
    /\ pc = "compress"
    /\ owArrays \in PackInputs
    /\ Locals

NextPack == compressSongArrays

SpecPack == InitPack /\ [][NextPack]_vars

(***************************************************************************)
(* Definitions the properties are stated with                              *)
(***************************************************************************)
TotalElements(arrays) ==
    Len(arrays.pitchArrays) + Len(arrays.timeArrays) + Len(arrays.chordArrays)

\* The consumer's fixed-width decoding of a packed array: the digits of the
\* packed elements in order, cut into fields of w digits, each read as a
\* decimal number
RECURSIVE ParseDecimal(_)
ParseDecimal(ds) ==
    IF ds = <<>> THEN 0 ELSE 10 * ParseDecimal(SubSeq(ds, 1, Len(ds) - 1)) + ds[Len(ds)]

RECURSIVE Fields(_, _)
Fields(buffer, w) ==
    IF buffer = <<>> THEN <<>>
    ELSE IF Len(buffer) <= w THEN <<ParseDecimal(buffer)>>
    ELSE <<ParseDecimal(SubSeq(buffer, 1, w))>> \o Fields(SubSeq(buffer, w + 1, Len(buffer)), w)

Unpack(elements, arrayName) == Fields(Join(elements), SONG_DATA_ELEMENT_LENGTHS[arrayName])

RECURSIVE Power10(_)
Power10(w) == IF w = 0 THEN 1 ELSE 10 * Power10(w - 1)

FitsWidth(x, arrayName) == x >= 0 /\ x < Power10(SONG_DATA_ELEMENT_LENGTHS[arrayName])

AllFit(arrays) ==
    \A k \in 1..3 : \A i \in 1..Len(arrays[ArrayNames[k]]) :
        FitsWidth(arrays[ArrayNames[k]][i], ArrayNames[k])

ValidSettings(obj) ==
    /\ DOMAIN obj = SettingsKeys
    /\ obj.startTime >= STARTTIME_MIN
    /\ obj.voices \in VOICES_MIN..VOICES_MAX

Distinct(seq) == \A i, j \in 1..Len(seq) : i # j => seq[i] # seq[j]

\* Positions <<track, note>> of the notes readMidiData has passed, and those
\* among them it retained
Processed ==
    { pos \in UNION { {<<a, b>> : b \in 1..Len(mid[a].notes)} : a \in 1..Len(mid) } :
        /\ mid[pos[1]].channel # PERCUSSION_CHANNEL
        /\ \/ pos[1] < ti
           \/ pos[1] = ti /\ pos[2] < ni }

RetainedEvents == { pos \in Processed : Retained(mid[pos[1]].notes[pos[2]], settings) }

EventTime(pos) == NoteTime(mid[pos[1]].notes[pos[2]])
EventPitch(pos) == NotePitch(mid[pos[1]].notes[pos[2]])

\* Pitches held by the chord with key t (none when there is no such chord)
Held(t) ==
    LET i == IndexOfTime(chords, t, 1) IN
    IF i = 0 THEN {} ELSE { chords[i].pitches[k] : k \in 1..Len(chords[i].pitches) }

\* Excess distinct pitches, each once: per key, distinct retained pitches
\* less pitches kept
DistinctExcess ==
    Sum([i \in 1..Len(chords) |->
            Cardinality({ EventPitch(pos) :
                            pos \in { q \in RetainedEvents : EventTime(q) = chords[i].time } })
            - Len(chords[i].pitches)])

\* Retained events whose pitch the chord at their key does not hold
DroppedEvents == { pos \in RetainedEvents : EventPitch(pos) \notin Held(EventTime(pos)) }

ReadDone == pc \notin {"start", "read"}

\* No note passes the three filters of readMidiData
NoRetainedNote ==
    \A a \in 1..Len(mid) :
        mid[a].channel # PERCUSSION_CHANNEL =>
            \A b \in 1..Len(mid[a].notes) : ~Retained(mid[a].notes[b], settings)

\* The pitches the k-th committed chord appended to pitchArrays
ChordSegment(k) ==
    LET before == Sum(SubSeq(owArrays.chordArrays, 1, k - 1)) IN
    SubSeq(owArrays.pitchArrays, before + 1, before + owArrays.chordArrays[k])

StrictlyAscending(seq) == \A i \in 1..(Len(seq) - 1) : seq[i] < seq[i + 1]

\* The declarations writeWorkshopRules emitted for an array, in order
Declarations(arrayName) == SelectSeq(rules, LAMBDA r : r.name = arrayName)

DeclaredElements(arrayName) ==
    LET decls == Declarations(arrayName) IN
    Join([k \in 1..Len(decls) |-> decls[k].elements])

(***************************************************************************)
(* Properties                                                              *)
(***************************************************************************)

\* C1: Budget respect.  The arrays convertMidi hands to the rule writer
\* (packed when compression is enabled, raw otherwise) hold in total at most
\* MAX_TOTAL_ARRAY_ELEMENTS elements.
C1_BudgetRespect ==
    pc = "write" => TotalElements(FinalArrays) <= MAX_TOTAL_ARRAY_ELEMENTS

\* C2: Pack/unpack round trip.  When every element of the three arrays fits
\* the field width of its array, decoding the packed elements by fixed-width
\* fields gives back the three arrays exactly.
C2_PackRoundTrip ==
    (pc = "write" /\ AllFit(owArrays)) =>
        \A k \in 1..3 :
            Unpack(compressedArrays[ArrayNames[k]], ArrayNames[k]) = owArrays[ArrayNames[k]]

\* C2 witness: a packed time array of two elements, the last shorter than
\* COMPRESSED_ELEMENT_LENGTH, whose second field was zero-padded and lies
\* across the two packed elements.
C2_Witness ==
    /\ pc = "write"
    /\ AllFit(owArrays)
    /\ Len(owArrays.timeArrays) = 3
    /\ owArrays.timeArrays[2] = 45
    /\ Len(compressedArrays.timeArrays) = 2
    /\ Len(compressedArrays.timeArrays[2]) < COMPRESSED_ELEMENT_LENGTH

\* C3: Chord voice cap.  After readMidiData has processed any prefix of the
\* notes, every chord holds at least one and at most settings.voices pitches,
\* pairwise distinct.
C3_ChordVoiceCap ==
    pc # "start" =>
        \A i \in 1..Len(chords) :
            /\ 1 <= Len(chords[i].pitches)
            /\ Len(chords[i].pitches) <= settings.voices
            /\ Distinct(chords[i].pitches)

\* C3 witness: with a valid voice limit, a chord is full and a further pitch
\* was refused.
C3_Witness ==
    /\ pc = "read"
    /\ ValidSettings(settings)
    /\ skippedNotes >= 1
    /\ \E i \in 1..Len(chords) : Len(chords[i].pitches) = settings.voices

\* C4 as claimed: at the end of readMidiData (valid settings), skippedNotes is
\* the number of excess distinct pitches, each counted once.
C4_SkippedDistinctOnce ==
    (ReadDone /\ ValidSettings(settings)) => skippedNotes = DistinctExcess

\* C4 as amended: skippedNotes is the number of retained note events whose
\* pitch the chord at their time key does not hold; an event repeating a
\* dropped pitch is counted again, an event whose pitch the chord holds is
\* never counted.
C4_SkippedCountsEvents ==
    pc # "start" => skippedNotes = Cardinality(DroppedEvents)

\* C4 witness: at the end of readMidiData with a valid voice limit, one
\* excess pitch occurred twice and was counted twice.
C4_Witness ==
    /\ ReadDone
    /\ ValidSettings(settings)
    /\ DistinctExcess = 1
    /\ skippedNotes = 2

\* C5: Stream consistency.  Whatever number of chords convertToArray has
\* committed, and also after an early stop on the budget, the chord sizes sum
\* to the number of pitches, there are as many time intervals as chord sizes,
\* and the arrays hold exactly the chords before the current one: the chord
\* that trips the budget added nothing.
C5_StreamConsistency ==
    /\ Sum(owArrays.chordArrays) = Len(owArrays.pitchArrays)
    /\ Len(owArrays.timeArrays) = Len(owArrays.chordArrays)
    /\ pc \in {"convert", "converted"} =>
          /\ Len(owArrays.chordArrays) = ci - 1
          /\ owArrays.chordArrays = [k \in 1..(ci - 1) |-> Len(chords[k].pitches)]

\* C5 witness: the loop stopped on the budget after committing a chord.
C5_Witness ==
    /\ pc = "converted"
    /\ ci >= 2
    /\ Len(owArrays.pitchArrays) >= 2

\* C6: Sorted emission.  The pitches each committed chord appended to
\* pitchArrays are in strictly ascending numeric order.
C6_SortedEmission ==
    \A k \in 1..Len(owArrays.chordArrays) : StrictlyAscending(ChordSegment(k))

\* C7: No-notes error.  convertMidi returns the empty rule text with the
\* no-notes error exactly when no note passes the filters; then no later
\* stage ran; otherwise there is no error and the rule text is not empty.
\* The single-track warning is there exactly when the song has one track.
C7_NoNotesError ==
    pc = "done" =>
        /\ (result.rules = <<>> /\ result.errors = <<NO_NOTES_FOUND>>) <=> NoRetainedNote
        /\ NoRetainedNote => ran = {}
        /\ ~NoRetainedNote => (result.errors = <<>> /\ result.rules # <<>>)
        /\ result.warnings = (IF Len(mid) = 1 THEN <<TYPE_0_FILE>> ELSE <<>>)

\* C7 witness: a single track whose only notes are filtered out: the error
\* and the warning are both returned.
C7_Witness ==
    /\ pc = "done"
    /\ Len(mid) = 1
    /\ mid[1].channel # PERCUSSION_CHANNEL
    /\ mid[1].notes # <<>>
    /\ result.errors = <<NO_NOTES_FOUND>>
    /\ result.warnings = <<TYPE_0_FILE>>

\* C8: Configuration validation.  The settings in use satisfy
\* startTime >= 0 and 6 <= voices <= 11; a valid settings object is used
\* unchanged and any other is replaced by the defaults.
C8_SettingsValidated ==
    pc # "start" =>
        /\ settings.startTime >= STARTTIME_MIN
        /\ settings.voices \in VOICES_MIN..VOICES_MAX
        /\ IF ValidSettings(suppliedSettings)
           THEN settings = suppliedSettings
           ELSE settings = DEFAULT_SETTINGS

\* C9: Lossless splitting.  For each array of n >= 1 elements the rule writer
\* emits ceil(n / MAX_OW_ARRAY_SIZE) declarations, indexed 0, 1, 2, ..., each
\* of at most MAX_OW_ARRAY_SIZE elements, whose elements in order are exactly
\* the elements of the array.
C9_LosslessSplitting ==
    (pc = "done" /\ "writeWorkshopRules" \in ran) =>
        \A k \in 1..3 :
            LET arrayName == ArrayNames[k]
                tokens == Tokens(FinalArrays[arrayName], compressionEnabled)
                decls == Declarations(arrayName)
            IN  Len(tokens) >= 1 =>
                  /\ Len(decls) = CeilDiv(Len(tokens), MAX_OW_ARRAY_SIZE)
                  /\ \A d \in 1..Len(decls) :
                        /\ decls[d].index = d - 1
                        /\ Len(decls[d].elements) <= MAX_OW_ARRAY_SIZE
                  /\ DeclaredElements(arrayName) = tokens

\* C10: Field widths met by construction.  With valid settings, every
\* element handed to compressSongArrays fits the field width of its array,
\* and its zero-padded text has exactly that width.
C10_FieldWidthsMet ==
    (pc = "compress" /\ ValidSettings(settings)) =>
        \A k \in 1..3 : \A i \in 1..Len(owArrays[ArrayNames[k]]) :
            /\ FitsWidth(owArrays[ArrayNames[k]][i], ArrayNames[k])
            /\ Len(PadStart(NumToString(owArrays[ArrayNames[k]][i]),
                            SONG_DATA_ELEMENT_LENGTHS[ArrayNames[k]]))
                 = SONG_DATA_ELEMENT_LENGTHS[ArrayNames[k]]

====
